---- MODULE Spec2Model ----
(***************************************************************************)
(* Row-wise enrichment orchestrator (yin_yang_processor.py process_data)   *)
(* with the Planner's validate_yang_response (yin.py) as a state machine.  *)
(*                                                                         *)
(* The Executor (YangAgent.process_task) and the completion capability     *)
(* behind the Planner are inputs: each call draws one outcome from a small *)
(* set.  The table is a pandas DataFrame with the default RangeIndex, as   *)
(* read_csv / read_excel produce it: columns in order, one cell per row    *)
(* and column, NaN for a cell never written.                               *)
(*                                                                         *)
(* utils.parse_json_safely is a machine of its own (ParserSpec): one call  *)
(* on a text of characters, with json.loads decoded character by character.*)
(*                                                                         *)
(* The conversation-style processor (yin_yang.py process) is a third       *)
(* machine (ConversationSpec): one call, with the agents' answers as       *)
(* inputs.                                                                 *)
(***************************************************************************)
EXTENDS Integers, Sequences, FiniteSets, TLC

VARIABLES
    df,                 \* the caller's input table: sequence of rows (column -> value)
    max_retries,        \* self.max_retries
    output_file,        \* self.output_file is set (streaming enabled)
    answers,            \* the results the Executor's provider can give in this run
    result_df,          \* [columns: Seq(name), rows: Seq(column -> cell)]
    sink,               \* lines of the output file: each a sequence of fields
    pc,                 \* position inside process_data
    index,              \* loop variable of "for index, row in df.iterrows()"
    retry_count,        \* locals of the row loop
    success,
    had_error,
    yang_result,        \* local yang_result of the current attempt
    validation_result,  \* locals returned by validate_yang_response
    validation_message,
    progress,           \* values received by progress_callback, in order
    trace,              \* observable events since the row / the attempt began
    h,                  \* history of the current row: calls and attempt outcomes
                        \* (asked: completion requests of the latest validate)
    ended,              \* per finished row: did an attempt raise, was one accepted,
                        \* was the first attempt accepted
    produced,           \* per started row: attribute -> str(value) of the latest
                        \* mapping the Executor returned with that attribute
    json_str,           \* argument of parse_json_safely: a sequence of characters
    parse_pc,           \* position inside parse_json_safely
    parsed,             \* value parse_json_safely returned
    max_iterations,     \* self.max_iterations of the conversation-style processor
    data,               \* argument of process: the user's DataFrame
    conversation_history, \* self.conversation_history: entries (role, content)
    current_data,       \* local of process
    final_result,       \* local of process
    yang_output,        \* local yang_result of process
    iteration,          \* iterations of the for loop begun so far
    conv_pc,            \* position inside process
    process_returned,   \* what process returned
    rounds              \* per iteration begun: what Yang returned and what the
                        \* validation reported

vars == <<df, max_retries, output_file, answers, result_df, sink, pc, index, retry_count,
          success, had_error, yang_result, validation_result, validation_message,
          progress, trace, h, ended, produced, json_str, parse_pc, parsed,
          max_iterations, data, conversation_history, current_data, final_result,
          yang_output, iteration, conv_pc, process_returned, rounds>>

\* The variables of a run of process_data.
orchestrator == <<df, max_retries, output_file, answers, result_df, sink, pc, index,
                  retry_count, success, had_error, yang_result, validation_result,
                  validation_message, progress, trace, h, ended, produced>>

\* The variables of a call of parse_json_safely.
parser == <<json_str, parse_pc, parsed>>

\* The variables of a call of process (yin_yang.py).
conversation == <<max_iterations, data, conversation_history, current_data,
                  final_result, yang_output, iteration, conv_pc, process_returned, rounds>>

-----------------------------------------------------------------------------
(* Bounds of the exploration *)

MaxRows == 2
MaxRetries == 2
MaxPieces == 3      \* fragments an input text of parse_json_safely is made of
MaxIterations == 3

-----------------------------------------------------------------------------
(* Values *)

NaN == "NaN"                    \* pandas missing cell
Timestamp == "<Timestamp>"      \* a cell value json.dumps cannot serialise
AiDecision == "ai_decision"
NoResult == [kind |-> "none", items |-> <<>>]

\* JSON values are tagged <<type, text>>; str(value) keeps the text.
Str(value) == value[2]

Mapping(items) == [kind |-> "mapping", items |-> items]
IsDict(result) == result.kind = "mapping"

\* Results the Executor may return (process_task is not part of the sources).
EmptyMapping == Mapping(<<>>)
ErrorMarker  == Mapping(<< <<"error", <<"str", "parse failed">>>> >>)
NotAMapping  == [kind |-> "list", items |-> <<>>]
ResultXY     == Mapping(<< <<"x", <<"str", "1">>>>, <<"y", <<"num", "2">>>> >>)
ResultYZ     == Mapping(<< <<"y", <<"str", "3">>>>, <<"z", <<"str", "4">>>> >>)
ResultClash  == Mapping(<< <<"name", <<"str", "Zed">>>>,
                           <<AiDecision, <<"str", "ok">>>> >>)

\* What the provider behind the Executor can answer during one run of
\* process_data: one of these sets of results.
ExecutorPools ==
    { {EmptyMapping, NotAMapping, ResultXY},
      {ResultXY, ResultYZ},
      {ErrorMarker, ResultClash} }
\* A call of the Executor returns one of the run's results or raises (transport).
Raises == [kind |-> "raise", items |-> <<>>]
ExecutorOutcomes(pool) == pool \cup {Raises}

\* Texts the completion capability may answer the Planner with, as characters.
TextWoohoo == <<"W","O","O","H","O","O">>
TextNaynay == <<"N","A","Y","N","A","Y">>
TextMixed  == <<"N","A","Y","N","A","Y"," ","w","o","o","h","o","o">>
PlannerTexts == {TextWoohoo, TextNaynay, TextMixed}
\* str(e) of an exception raised by the completion request
TextTimeout == <<"t","i","m","e","o","u","t">>
\* A completion request of the Planner returns a text, returns a message whose
\* content is None, or raises.
PlannerOutcomes ==
    {[raises |-> FALSE, none |-> FALSE, text |-> t] : t \in PlannerTexts}
        \cup {[raises |-> TRUE, none |-> FALSE, text |-> TextTimeout],
              [raises |-> FALSE, none |-> TRUE, text |-> <<>>]}
NoReply == [raises |-> FALSE, none |-> FALSE, text |-> <<>>]

InputValues == {"Ada", Timestamp}
InputTables ==
    UNION {[1..n -> [{"name"} -> InputValues]] : n \in 0..MaxRows}

-----------------------------------------------------------------------------
(* DataFrame operations *)

Columns(t) == {t.columns[i] : i \in 1..Len(t.columns)}

\* A bug that works on the caller's table itself (result_df = df): a write to
\* the working table is a write to the caller's rows.
CallerSharesWrites(caller, working) == working.rows

\* The caller's rows after a write to the working table: df.copy() made the
\* working table an object of its own, so the write does not reach them.
CallerAfterWrite(caller, working) == caller

\* df.copy()
Copy(table) == [columns |-> <<"name">>, rows |-> table]

\* result_df[col] = value : sets the whole column, appending it when new
SetColumn(t, col, value) ==
    [columns |-> IF col \in Columns(t) THEN t.columns ELSE Append(t.columns, col),
     rows |-> [r \in 1..Len(t.rows) |->
                 [c \in Columns(t) \cup {col} |->
                     IF c = col THEN value ELSE t.rows[r][c]]]]

\* A bug that adds a new column to the written row's neighbours as well.
LocSetWholeColumn(t, idx, key, value) ==
    IF key \in Columns(t)
    THEN [t EXCEPT !.rows[idx + 1][key] = value]
    ELSE SetColumn(t, key, value)

\* result_df.loc[idx, key] = value : one cell; a new column is NaN elsewhere
LocSet(t, idx, key, value) ==
    LET withCol == IF key \in Columns(t) THEN t ELSE SetColumn(t, key, NaN)
    IN  [withCol EXCEPT !.rows[idx + 1][key] = value]

\* A bug that fills only empty cells, so a retry's value does not supersede.
RECURSIVE MergeItemsKeepsFirst(_, _, _)
MergeItemsKeepsFirst(t, idx, items) ==
    IF items = <<>> THEN t
    ELSE LET key == items[1][1]
             keep == key \in Columns(t) /\ t.rows[idx + 1][key] # NaN
         IN  MergeItemsKeepsFirst(
                 IF keep THEN t ELSE LocSet(t, idx, key, Str(items[1][2])),
                 idx, Tail(items))

\* A bug that merges the first item of the result only.
MergeFirstItemOnly(t, idx, items) ==
    IF items = <<>> THEN t
    ELSE LocSet(t, idx, items[1][1], Str(items[1][2]))

\* for key, value in yang_result.items(): result_df.loc[index, key] = str(value)
RECURSIVE MergeItems(_, _, _)
MergeItems(t, idx, items) ==
    IF items = <<>> THEN t
    ELSE MergeItems(LocSet(t, idx, items[1][1], Str(items[1][2])), idx, Tail(items))

\* A bug that writes the attempt's status first and merges the items after it.
WriteOutcomeBeforeMerge(t, idx, items, status) ==
    MergeItems(LocSet(t, idx, AiDecision, status), idx, items)

\* result_df.loc[index, "ai_decision"] = "valid" | "invalid", t being the table
\* after the merge of the attempt's items
WriteOutcome(t, idx, items, status) == LocSet(t, idx, AiDecision, status)

\* A bug that merges only under "if validation_result".
TableOnRejectUnmerged(before, merged) == before

\* The table a rejected attempt goes on with: the merge stands before
\* "if validation_result", so it is the merged one.
TableOnReject(before, merged) == merged

\* result_df.iloc[[idx]].to_csv(header=False): the row's fields in column order
RowFields(t, idx) == [i \in 1..Len(t.columns) |-> t.rows[idx + 1][t.columns[i]]]

\* A bug that opens the output file in write mode for every row.
StreamRowOverwrites(lines, t, idx) == <<t.columns, RowFields(t, idx)>>

\* row_df.to_csv(self.output_file, mode='a', header=False, index=False)
StreamRow(lines, t, idx) == Append(lines, RowFields(t, idx))

\* json.dumps(row_data) raises TypeError on a value it cannot serialise
JsonDumpsRaises(row_data) == \E c \in DOMAIN row_data : row_data[c] = Timestamp

-----------------------------------------------------------------------------
(* Planner: YinAgent.validate_yang_response *)

UpperChar(c) ==
    CASE c = "w" -> "W" [] c = "o" -> "O" [] c = "h" -> "H"
      [] c = "n" -> "N" [] c = "a" -> "A" [] c = "y" -> "Y"
      [] OTHER -> c

\* str.upper()
Upper(text) == [i \in 1..Len(text) |-> UpperChar(text[i])]

\* needle in text
Contains(text, needle) ==
    \E i \in 0..(Len(text) - Len(needle)) :
        SubSeq(text, i + 1, i + Len(needle)) = needle

Message(src, text) == [src |-> src, text |-> text]

\* f"Validation error: {str(e)}"
ErrorPrefix == <<"V","a","l","i","d","a","t","i","o","n"," ","e","r","r","o","r",":"," ">>
\* str(e) of the TypeError of json.dumps and of the AttributeError of None.upper()
TextNotSerializable == <<"n","o","t"," ","s","e","r","i","a","l","i","z","a","b","l","e">>
TextNoUpper == <<"n","o"," ","a","t","t","r","i","b","u","t","e"," ","u","p","p","e","r">>

\* A value validate_yang_response returns: (is_valid, validation_message), with
\* the number of completion requests the call issued.
Verdict(is_valid, message, requests) ==
    [is_valid |-> is_valid, message |-> message, requests |-> requests, raised |-> FALSE]

\* A bug that lets the exception leave validate_yang_response.
Propagated(e, requests) ==
    [is_valid |-> FALSE, message |-> Message("none", <<>>), requests |-> requests,
     raised |-> TRUE]

\* except Exception as e: return False, f"Validation error: {str(e)}"
Caught(e, requests) ==
    Verdict(FALSE, Message("validation_error", ErrorPrefix \o e), requests)

\* A bug that accepts only a response that starts with the accept token.
AskModelFirstWord(row_data, llm) ==
    IF JsonDumpsRaises(row_data) THEN Caught(TextNotSerializable, 0)
    ELSE IF llm.raises THEN Caught(llm.text, 1)
    ELSE IF llm.none THEN Caught(TextNoUpper, 1)
    ELSE Verdict(SubSeq(Upper(llm.text), 1, Len(TextWoohoo)) = TextWoohoo,
                 Message("response", llm.text), 1)

\* The prompt, the completion request and the reading of its answer; llm is the
\* outcome the completion capability gives if it is asked.
AskModel(row_data, llm) ==
    IF JsonDumpsRaises(row_data) THEN Caught(TextNotSerializable, 0)
    ELSE IF llm.raises THEN Caught(llm.text, 1)
    ELSE IF llm.none THEN Caught(TextNoUpper, 1)
    ELSE Verdict(Contains(Upper(llm.text), TextWoohoo),
                 Message("response", llm.text), 1)

\* A bug that asks the model about an empty mapping too.
ValidateWithoutEmptyCheck(yang_response, row_data, llm) ==
    IF ~IsDict(yang_response)
    THEN Verdict(FALSE, Message("not_an_object", <<>>), 0)
    ELSE AskModel(row_data, llm)

\* A bug that sends the completion request before the structural checks.
ValidateAsksBeforeChecks(yang_response, row_data, llm) ==
    LET v == AskModel(row_data, llm)
    IN  IF v.message.src = "validation_error" THEN v
        ELSE IF ~IsDict(yang_response)
        THEN Verdict(FALSE, Message("not_an_object", <<>>), v.requests)
        ELSE IF yang_response.items = <<>>
        THEN Verdict(FALSE, Message("empty", <<>>), v.requests)
        ELSE v

\* validate_yang_response(yang_response, context): the structural checks, then
\* the model's judgment.
ValidateYangResponse(yang_response, row_data, llm) ==
    IF ~IsDict(yang_response)
    THEN Verdict(FALSE, Message("not_an_object", <<>>), 0)
    ELSE IF yang_response.items = <<>>
    THEN Verdict(FALSE, Message("empty", <<>>), 0)
    ELSE AskModel(row_data, llm)

-----------------------------------------------------------------------------
(* utils.parse_json_safely, with json.loads on texts of characters *)

Quote == "\""
Digits == {"1", "7"}

\* Fragments of the texts given to parse_json_safely.
PieceObject == <<"{", Quote, "k", Quote, ":", "1", "}">>
PieceOpen   == <<"{">>
PieceClose  == <<"}">>
PieceArray  == <<"[", "1", "]">>
PieceNumber == <<"7">>
PieceString == <<Quote, "s", Quote>>
PieceProse  == <<"x">>
PieceSpace  == <<" ">>
Pieces == {PieceObject, PieceOpen, PieceClose, PieceArray, PieceNumber,
           PieceString, PieceProse, PieceSpace}

\* The texts of at most n fragments.
RECURSIVE TextsOf(_)
TextsOf(n) ==
    IF n = 0 THEN {<<>>}
    ELSE TextsOf(n - 1) \cup {t \o q : t \in TextsOf(n - 1), q \in Pieces}
Texts == TextsOf(MaxPieces)

\* A decoded JSON value: its Python type and its compact serialisation.
Value(kind, repr) == [kind |-> kind, repr |-> repr]
NoneValue == Value("None", <<>>)
NotReturned == Value("unset", <<>>)

At(s, i) == IF i >= 1 /\ i <= Len(s) THEN s[i] ELSE "EOF"

\* json.decoder WHITESPACE.match(s, i).end()
RECURSIVE SkipWs(_, _)
SkipWs(s, i) == IF At(s, i) = " " THEN SkipWs(s, i + 1) ELSE i

\* The position after the digits that start at i.
RECURSIVE ScanNumber(_, _)
ScanNumber(s, i) == IF At(s, i) \in Digits THEN ScanNumber(s, i + 1) ELSE i

\* The position of the quote that closes a string whose content starts at i,
\* 0 for an unterminated string.
RECURSIVE ScanString(_, _)
ScanString(s, i) ==
    IF i > Len(s) THEN 0 ELSE IF s[i] = Quote THEN i ELSE ScanString(s, i + 1)

NoParse == [ok |-> FALSE, kind |-> "none", repr |-> <<>>, next |-> 0]
Decoded(kind, repr, next) == [ok |-> TRUE, kind |-> kind, repr |-> repr, next |-> next]

\* json.scanner scan_once(s, i): the value that starts at position i and the
\* position after it; ScanMembers and ScanElements are JSONObject and JSONArray
\* after the opening bracket.
RECURSIVE ScanOnce(_, _)
RECURSIVE ScanMembers(_, _, _)
RECURSIVE ScanElements(_, _, _)
ScanOnce(s, i) ==
    LET c == At(s, i)
    IN  IF c = Quote
        THEN LET e == ScanString(s, i + 1)
             IN  IF e = 0 THEN NoParse ELSE Decoded("str", SubSeq(s, i, e), e + 1)
        ELSE IF c \in Digits
        THEN LET e == ScanNumber(s, i)
             IN  Decoded("int", SubSeq(s, i, e - 1), e)
        ELSE IF c = "{"
        THEN LET j == SkipWs(s, i + 1)
             IN  IF At(s, j) = "}" THEN Decoded("dict", <<"{", "}">>, j + 1)
                 ELSE ScanMembers(s, j, <<"{">>)
        ELSE IF c = "["
        THEN LET j == SkipWs(s, i + 1)
             IN  IF At(s, j) = "]" THEN Decoded("list", <<"[", "]">>, j + 1)
                 ELSE ScanElements(s, j, <<"[">>)
        ELSE NoParse

ScanMembers(s, i, acc) ==
    IF At(s, i) # Quote THEN NoParse
    ELSE LET e == ScanString(s, i + 1)
         IN  IF e = 0 THEN NoParse
             ELSE LET c == SkipWs(s, e + 1)
                  IN  IF At(s, c) # ":" THEN NoParse
                      ELSE LET v == ScanOnce(s, SkipWs(s, c + 1))
                               n == SkipWs(s, v.next)
                               item == acc \o SubSeq(s, i, e) \o <<":">> \o v.repr
                           IN  IF ~v.ok THEN NoParse
                               ELSE IF At(s, n) = "}"
                               THEN Decoded("dict", item \o <<"}">>, n + 1)
                               ELSE IF At(s, n) = ","
                               THEN ScanMembers(s, SkipWs(s, n + 1), item \o <<",">>)
                               ELSE NoParse

ScanElements(s, i, acc) ==
    LET v == ScanOnce(s, i)
        n == SkipWs(s, v.next)
        item == acc \o v.repr
    IN  IF ~v.ok THEN NoParse
        ELSE IF At(s, n) = "]" THEN Decoded("list", item \o <<"]">>, n + 1)
        ELSE IF At(s, n) = ","
        THEN ScanElements(s, SkipWs(s, n + 1), item \o <<",">>)
        ELSE NoParse

\* json.loads(s): the decoded value, or JSONDecodeError when no value starts
\* the text or data follows the value.
JsonLoads(s) ==
    LET v == ScanOnce(s, SkipWs(s, 1))
    IN  IF v.ok /\ SkipWs(s, v.next) = Len(s) + 1
        THEN [raises |-> FALSE, value |-> Value(v.kind, v.repr)]
        ELSE [raises |-> TRUE, value |-> NoneValue]

\* str.find(c) and str.rfind(c): 0-based position, -1 when c does not occur
Find(s, c) ==
    IF \E i \in 1..Len(s) : s[i] = c
    THEN (CHOOSE i \in 1..Len(s) : s[i] = c /\ \A j \in 1..(i - 1) : s[j] # c) - 1
    ELSE -1
RFind(s, c) ==
    IF \E i \in 1..Len(s) : s[i] = c
    THEN (CHOOSE i \in 1..Len(s) : s[i] = c /\ \A j \in (i + 1)..Len(s) : s[j] # c) - 1
    ELSE -1

\* s[a:b] for 0 <= a <= b
Slice(s, a, b) == SubSeq(s, a + 1, b)

\* The handler of json.JSONDecodeError: the text between the first "{" and
\* the last "}", None when it does not parse or there is no such text.
ExtractBraces(s) ==
    LET start_idx == Find(s, "{")
        end_idx == RFind(s, "}")
    IN  IF start_idx >= 0 /\ end_idx > start_idx
        THEN LET r == JsonLoads(Slice(s, start_idx, end_idx + 1))
             IN  IF r.raises THEN NoneValue ELSE r.value
        ELSE NoneValue

\* parse_json_safely(json_str)
ParseJsonSafely(s) ==
    LET r == JsonLoads(s)
    IN  IF r.raises THEN ExtractBraces(s) ELSE r.value

-----------------------------------------------------------------------------
(* Row orchestrator: the pieces of process_data's row loop *)

\* A bug that reports the 0-based index label as the row number.
CurrentRowZeroBased(idx) == idx

\* current_row = index + 1
CurrentRow(idx) == idx + 1

\* A bug that retries until an attempt is accepted, whatever the budget.
LoopGuardIgnoresBudget(s, rc, mr) == ~s

\* A bug that allows one attempt more than the budget.
LoopGuardOffByOne(s, rc, mr) == ~s /\ rc <= mr

\* while not success and retry_count < self.max_retries
LoopGuard(s, rc, mr) == ~s /\ rc < mr

\* A bug that initialises had_error once, before the loop over the rows.
RowLocalsKeepError(previous_error) ==
    [retry_count |-> 0, success |-> FALSE, had_error |-> previous_error]

\* retry_count = 0; success = False; had_error = False   (inside the for loop)
RowLocals(previous_error) ==
    [retry_count |-> 0, success |-> FALSE, had_error |-> FALSE]

\* A bug that retries by validating the old result again, without a new
\* Executor call.
AfterAttemptRevalidates(s, rc) ==
    IF LoopGuard(s, rc, max_retries) THEN "validate" ELSE "rowend"

\* where control goes after an attempt ended without break
AfterAttempt(s, rc) == IF LoopGuard(s, rc, max_retries) THEN "attempt" ELSE "rowend"

\* A bug that reports a row with exceptions as invalid.
FinalDecisionIgnoresError(he) == "invalid"

\* if had_error: "error" else: "invalid"   (under "if not success")
FinalDecision(he) == IF he THEN "error" ELSE "invalid"

\* A bug that writes no final status for a row whose attempts all raised.
FinalizeOnlyInvalid(t, idx, s, he) ==
    IF s \/ he THEN t ELSE LocSet(t, idx, AiDecision, FinalDecision(he))

\* A bug that writes the final status without testing "if not success".
FinalizeAlways(t, idx, s, he) == LocSet(t, idx, AiDecision, FinalDecision(he))

\* A bug that empties the enrichment cells of a row that was not accepted.
FinalizeClearsCells(t, idx, s, he) ==
    IF s THEN t
    ELSE LET marked == LocSet(t, idx, AiDecision, FinalDecision(he))
         IN  [marked EXCEPT !.rows[idx + 1] =
                 [c \in DOMAIN @ |-> IF c \in {"name", AiDecision} THEN @[c] ELSE NaN]]

\* if not success: result_df.loc[index, "ai_decision"] = "error" | "invalid"
Finalize(t, idx, s, he) ==
    IF s THEN t ELSE LocSet(t, idx, AiDecision, FinalDecision(he))

\* A bug that drops "success = True; break" after an accepted attempt.
OnAcceptKeepsLooping(rc) == [success |-> FALSE, pc |-> AfterAttempt(FALSE, rc)]

\* success = True; break
OnAccept(rc) == [success |-> TRUE, pc |-> "rowend"]

\* A bug that leaves the merge of the result's items outside the try block.
InTryWithoutMerge(place) ==
    place \in {"formulate_yang_task", "process_task", "validate_yang_response"}

\* The statements of the loop body that the try block encloses.
InTry(place) ==
    place \in {"formulate_yang_task", "process_task", "validate_yang_response", "merge"}

Ev(kind, tag) == <<kind, tag>>

\* A bug that counts the raised attempt and forgets that it raised.
HandlerForgetsError(he, rc) == [had_error |-> he, retry_count |-> rc + 1]

\* except Exception as e: had_error = True; retry_count += 1
Handler(he, rc) == [had_error |-> TRUE, retry_count |-> rc + 1]

\* A bug that counts a rejected attempt twice.
OnRejectCountsTwice(rc, mr) ==
    [retry_count |-> rc + 2,
     events |-> <<Ev("yin", "Validation failed")>>
                \o (IF rc + 2 >= mr
                    THEN <<Ev("yin", "All validation attempts failed")>>
                    ELSE <<>>)]

\* else: log "Validation failed"; ...; retry_count += 1;
\* if retry_count >= self.max_retries: log "All validation attempts failed"
OnReject(rc, mr) ==
    [retry_count |-> rc + 1,
     events |-> <<Ev("yin", "Validation failed")>>
                \o (IF rc + 1 >= mr
                    THEN <<Ev("yin", "All validation attempts failed")>>
                    ELSE <<>>)]

\* A bug that reports a raised attempt under the kind "system".
HandlerEventsAsSystem(rc, mr) ==
    <<Ev("system", "Error processing row")>>
        \o (IF rc >= mr THEN <<Ev("system", "All processing attempts failed")>>
            ELSE <<>>)

\* The log calls of "except Exception as e", rc being the incremented
\* retry_count.
HandlerEvents(rc, mr) ==
    <<Ev("error", "Error processing row")>>
        \o (IF rc >= mr THEN <<Ev("error", "All processing attempts failed")>>
            ELSE <<>>)

\* The attributes of a returned mapping with their stringified values, later
\* items overriding earlier ones.
RECURSIVE Latest(_, _)
Latest(f, items) ==
    IF items = <<>> THEN f
    ELSE Latest([a \in DOMAIN f \cup {items[1][1]} |->
                    IF a = items[1][1] THEN Str(items[1][2]) ELSE f[a]],
                Tail(items))

\* No call of process is under way.
ConversationIdle ==
    /\ max_iterations = 0
    /\ data = NotReturned
    /\ conversation_history = <<>>
    /\ current_data = NotReturned
    /\ final_result = NotReturned
    /\ yang_output = NotReturned
    /\ iteration = 0
    /\ conv_pc = "idle"
    /\ process_returned = NotReturned
    /\ rounds = <<>>

NewHistory ==
    [attempts |-> 0, exec |-> 0, validate |-> 0, requests |-> 0,
     raises |-> 0, transport |-> FALSE, rejects |-> 0, accepts |-> 0,
     nonEmpty |-> FALSE, last |-> "none", asked |-> 0, reply |-> NoReply]

-----------------------------------------------------------------------------
(* State machine *)

Init ==
    /\ df \in InputTables
    /\ max_retries \in 1..MaxRetries
    /\ output_file \in BOOLEAN
    /\ answers \in ExecutorPools
    /\ result_df = [columns |-> <<>>, rows |-> <<>>]
    /\ sink = <<>>
    /\ pc = "start"
    /\ index = 0
    /\ retry_count = 0
    /\ success = FALSE
    /\ had_error = FALSE
    /\ yang_result = NoResult
    /\ validation_result = FALSE
    /\ validation_message = Message("none", <<>>)
    /\ progress = <<>>
    /\ trace = <<>>
    /\ h = NewHistory
    /\ ended = <<>>
    /\ produced = <<>>
    /\ json_str = <<>>
    /\ parse_pc = "idle"
    /\ parsed = NotReturned
    /\ ConversationIdle

\* process_data up to the row loop: copy, ai_decision column, logs, header
Start ==
    /\ UNCHANGED <<parser, conversation>>
    /\ pc = "start"
    /\ result_df' = SetColumn(Copy(df), AiDecision, "")
    /\ sink' = IF output_file THEN <<result_df'.columns>> ELSE sink
    /\ trace' = <<Ev("system", "Starting to process"), Ev("system", "User command"),
                  Ev("system", "Initializing Yin agent")>>
                 \o (IF output_file THEN <<Ev("system", "Streaming results")>> ELSE <<>>)
    /\ index' = 0
    /\ pc' = "loop"
    /\ UNCHANGED <<max_retries, output_file, answers, retry_count, success, had_error,
                   yang_result, validation_result, validation_message, progress,
                   h, ended, produced>>
    /\ df' = CallerAfterWrite(df, result_df')

\* for index, row in df.iterrows(): progress, log, reset of the row's locals
BeginRow ==
    /\ UNCHANGED <<parser, conversation>>
    /\ pc = "loop"
    /\ index < Len(df)
    /\ progress' = Append(progress, CurrentRow(index))
    /\ trace' = <<Ev("progress", "on_progress"), Ev("system", "Processing row")>>
    /\ retry_count' = RowLocals(had_error).retry_count
    /\ success' = RowLocals(had_error).success
    /\ had_error' = RowLocals(had_error).had_error
    /\ h' = NewHistory
    /\ produced' = Append(produced, <<>>)
    /\ pc' = AfterAttempt(success', retry_count')
    /\ UNCHANGED <<df, max_retries, output_file, answers, result_df, sink, index,
                   yang_result, validation_result, validation_message, ended>>

\* An exception raised at place: inside the try block the handler
\* "except Exception as e" runs; outside it the exception leaves process_data.
Except(place, events) ==
    IF InTry(place)
    THEN /\ had_error' = Handler(had_error, retry_count).had_error
         /\ retry_count' = Handler(had_error, retry_count).retry_count
         /\ trace' = events \o HandlerEvents(retry_count', max_retries)
         /\ pc' = AfterAttempt(success, retry_count')
    ELSE /\ pc' = "raised"
         /\ trace' = events
         /\ UNCHANGED <<had_error, retry_count>>

\* One iteration of the while loop up to the Executor's answer.
Attempt ==
    /\ UNCHANGED <<parser, conversation>>
    /\ pc = "attempt"
    /\ LET row_dict == df[index + 1]
           pre == (IF retry_count > 0 THEN <<Ev("system", "Retry")>> ELSE <<>>)
                  \o <<Ev("yin", "Analyzing row"), Ev("yin", "Formulating task")>>
           call == pre \o <<Ev("yang", "Processing task"), Ev("call", "process_task")>>
       IN  IF JsonDumpsRaises(row_dict)
           THEN \* formulate_yang_task raises: the Executor is not reached
                /\ Except("formulate_yang_task", pre)
                /\ h' = [h EXCEPT !.attempts = @ + 1, !.raises = @ + 1,
                                  !.last = "raise"]
                /\ UNCHANGED <<yang_result, produced>>
           ELSE \E outcome \in ExecutorOutcomes(answers) :
                IF outcome = Raises
                THEN /\ Except("process_task", call)
                     /\ h' = [h EXCEPT !.attempts = @ + 1, !.exec = @ + 1,
                                       !.raises = @ + 1, !.transport = TRUE,
                                       !.last = "raise"]
                     /\ UNCHANGED <<yang_result, produced>>
                ELSE /\ yang_result' = outcome
                     /\ trace' = call \o <<Ev("yang", "Generated enrichment data")>>
                     /\ h' = [h EXCEPT !.attempts = @ + 1, !.exec = @ + 1,
                                       !.nonEmpty = @ \/ outcome # EmptyMapping,
                                       !.last = "pending"]
                     /\ produced' =
                          IF IsDict(outcome)
                          THEN [produced EXCEPT ![index + 1] = Latest(@, outcome.items)]
                          ELSE produced
                     /\ pc' = "validate"
                     /\ UNCHANGED <<retry_count, had_error>>
    /\ UNCHANGED <<df, max_retries, output_file, answers, result_df, sink, index,
                   success, validation_result, validation_message, progress, ended>>

\* validation_result, validation_message = self.yin.validate_yang_response(...)
Validate ==
    /\ UNCHANGED <<parser, conversation>>
    /\ pc = "validate"
    /\ \E llm \in PlannerOutcomes :
         LET v == ValidateYangResponse(yang_result, df[index + 1], llm)
             events == trace \o <<Ev("yin", "Validating Yang's response"),
                                  Ev("call", "validate_yang_response")>>
             called == [h EXCEPT !.validate = @ + 1, !.requests = @ + v.requests,
                                 !.asked = v.requests,
                                 !.reply = IF v.requests > 0 THEN llm ELSE NoReply]
         IN  IF v.raised
             THEN /\ Except("validate_yang_response", events)
                  /\ h' = [called EXCEPT !.raises = @ + 1, !.last = "raise"]
                  /\ UNCHANGED <<validation_result, validation_message>>
             ELSE /\ validation_result' = v.is_valid
                  /\ validation_message' = v.message
                  /\ h' = called
                  /\ trace' = events
                  /\ pc' = "merge"
                  /\ UNCHANGED <<retry_count, had_error>>
    /\ UNCHANGED <<df, max_retries, output_file, answers, result_df, sink, index,
                   success, yang_result, progress, ended, produced>>

\* The merge of the result's items, then the accepted / rejected branch.
Merge ==
    /\ UNCHANGED <<parser, conversation>>
    /\ pc = "merge"
    /\ IF ~IsDict(yang_result)
       THEN \* yang_result.items() raises AttributeError
            /\ Except("merge", trace)
            /\ h' = [h EXCEPT !.raises = @ + 1, !.last = "raise"]
            /\ UNCHANGED <<result_df, success>>
       ELSE LET merged == MergeItems(result_df, index, yang_result.items)
                events == trace \o <<Ev("call", "merge")>>
            IN  IF validation_result
                THEN /\ result_df' = WriteOutcome(merged, index, yang_result.items, "valid")
                     /\ success' = OnAccept(retry_count).success
                     /\ pc' = OnAccept(retry_count).pc
                     /\ trace' = events \o <<Ev("yin", "Validation successful")>>
                     /\ h' = [h EXCEPT !.accepts = @ + 1, !.last = "accept"]
                     /\ UNCHANGED <<retry_count, had_error>>
                ELSE /\ result_df' = WriteOutcome(TableOnReject(result_df, merged), index,
                                                 yang_result.items, "invalid")
                     /\ retry_count' = OnReject(retry_count, max_retries).retry_count
                     /\ trace' = events \o OnReject(retry_count, max_retries).events
                     /\ pc' = AfterAttempt(success, retry_count')
                     /\ h' = [h EXCEPT !.rejects = @ + 1, !.last = "reject"]
                     /\ UNCHANGED <<success, had_error>>
    /\ UNCHANGED <<max_retries, output_file, answers, sink, index, yang_result,
                   validation_result, validation_message, progress, ended, produced>>
    /\ df' = CallerAfterWrite(df, result_df')

\* After the while loop: final status, streaming of the row, next row.
EndRow ==
    /\ UNCHANGED <<parser, conversation>>
    /\ pc = "rowend"
    /\ result_df' = Finalize(result_df, index, success, had_error)
    /\ sink' = IF output_file THEN StreamRow(sink, result_df', index) ELSE sink
    /\ trace' = (IF success THEN <<>> ELSE <<Ev("system", "Final status")>>)
                 \o (IF output_file THEN <<Ev("system", "Row written")>> ELSE <<>>)
    /\ ended' = Append(ended, [raised |-> h.raises > 0, transport |-> h.transport,
                               accepted |-> h.accepts > 0,
                               first |-> h.accepts > 0 /\ h.attempts = 1])
    /\ index' = index + 1
    /\ pc' = "loop"
    /\ UNCHANGED <<max_retries, output_file, answers, retry_count, success, had_error,
                   yang_result, validation_result, validation_message, progress, h,
                   produced>>
    /\ df' = CallerAfterWrite(df, result_df')

\* The loop is exhausted: log and return result_df.
Return ==
    /\ UNCHANGED <<parser, conversation>>
    /\ pc = "loop"
    /\ index = Len(df)
    /\ trace' = <<Ev("system", "Processing complete")>>
    /\ pc' = "done"
    /\ UNCHANGED <<df, max_retries, output_file, answers, result_df, sink, index, retry_count,
                   success, had_error, yang_result, validation_result,
                   validation_message, progress, h, ended, produced>>

Next == Start \/ BeginRow \/ Attempt \/ Validate \/ Merge \/ EndRow \/ Return

Spec == Init /\ [][Next]_vars

\* process_data runs in one thread and every call it makes returns or raises:
\* a statement that can be executed is executed.
FairSpec == Spec /\ WF_vars(Next)

-----------------------------------------------------------------------------
(* A call of parse_json_safely on a text, outside any run of process_data *)

ParserInit ==
    /\ json_str \in Texts
    /\ parse_pc = "call"
    /\ parsed = NotReturned
    /\ df = <<>>
    /\ max_retries = 1
    /\ output_file = FALSE
    /\ answers = {}
    /\ result_df = [columns |-> <<>>, rows |-> <<>>]
    /\ sink = <<>>
    /\ pc = "idle"
    /\ index = 0
    /\ retry_count = 0
    /\ success = FALSE
    /\ had_error = FALSE
    /\ yang_result = NoResult
    /\ validation_result = FALSE
    /\ validation_message = Message("none", <<>>)
    /\ progress = <<>>
    /\ trace = <<>>
    /\ h = NewHistory
    /\ ended = <<>>
    /\ produced = <<>>
    /\ ConversationIdle

\* try: return json.loads(json_str)
ParseDirect ==
    /\ parse_pc = "call"
    /\ LET r == JsonLoads(json_str)
       IN  IF r.raises
           THEN parse_pc' = "except" /\ parsed' = parsed
           ELSE parse_pc' = "returned" /\ parsed' = r.value
    /\ UNCHANGED <<orchestrator, json_str, conversation>>

\* except json.JSONDecodeError: the text between the braces, or None
ParseExtract ==
    /\ parse_pc = "except"
    /\ parsed' = ExtractBraces(json_str)
    /\ parse_pc' = "returned"
    /\ UNCHANGED <<orchestrator, json_str, conversation>>

ParserNext == ParseDirect \/ ParseExtract

ParserSpec == ParserInit /\ [][ParserNext]_vars

-----------------------------------------------------------------------------
(* A call of process (yin_yang.py), outside any run of process_data *)

DataFrame(name) == Value("DataFrame", <<name>>)
IsDataFrame(v) == v.kind = "DataFrame"
InputData == DataFrame("input")
Summary == Value("str", <<"summary">>)

\* What the code generated for execute_task can return.
YangResults == {DataFrame("a"), DataFrame("b"), Summary, NoneValue}

\* execute_task(instruction, data, history): the first completion request may
\* raise; a failure of the generated code is caught and the data passed in is
\* returned with an error explanation.
YangOutcomes(passed) ==
    {[raises |-> TRUE, result |-> NoneValue, explanation |-> "none"]}
    \cup {[raises |-> FALSE, result |-> r, explanation |-> "explained"] : r \in YangResults}
    \cup {[raises |-> FALSE, result |-> passed, explanation |-> "Error executing code"]}

\* yin.generate_instruction(...): an instruction text, or an exception.
InstructionOutcomes ==
    {[raises |-> TRUE, text |-> "none"], [raises |-> FALSE, text |-> "instruction"]}

\* yin.validate_result(...): (is_complete, feedback), or an exception.
ValidationOutcomes ==
    {[raises |-> TRUE, is_complete |-> FALSE, feedback |-> "none"],
     [raises |-> FALSE, is_complete |-> TRUE, feedback |-> "complete"],
     [raises |-> FALSE, is_complete |-> FALSE, feedback |-> "go on"]}

\* format_output_based_on_content(final_result): the pair it makes of a value.
FormatOutput(v) == [kind |-> "formatted", repr |-> <<v.kind>> \o v.repr]

\* One entry of self.conversation_history.
Entry(role, content) == [role |-> role, content |-> content]

\* The history a finished earlier call of process left behind.
EarlierHistory ==
    <<Entry("user", "command and preview"), Entry("yin", "instruction"),
      Entry("yang", "explained"), Entry("yin_validation", "complete")>>

\* A bug that keeps the history of the earlier call.
ResetHistoryKeeps(old) == old

\* self.conversation_history = []
ResetHistory(old) == <<>>

\* A bug that runs the loop once more than max_iterations.
ForLoopOneMore(i, n) == IF i <= n THEN "instruct" ELSE "finish"

\* for iteration in range(self.max_iterations), i iterations being done
ForLoop(i, n) == IF i < n THEN "instruct" ELSE "finish"

\* if isinstance(yang_result, pd.DataFrame): current_data = yang_result
UpdateCurrent(current, result) == IF IsDataFrame(result) THEN result ELSE current

\* if is_complete: final_result = yang_result; break
OnValidation(is_complete, fr, yr, i, n) ==
    IF is_complete THEN [final_result |-> yr, conv_pc |-> "finish"]
    ELSE [final_result |-> fr, conv_pc |-> ForLoop(i, n)]

\* if final_result is None: final_result = current_data
FinalResult(fr, current) == IF fr = NoneValue THEN current ELSE fr

\* The orchestrator and the parser are not running.
OrchestratorIdle ==
    /\ df = <<>>
    /\ max_retries = 1
    /\ output_file = FALSE
    /\ answers = {}
    /\ result_df = [columns |-> <<>>, rows |-> <<>>]
    /\ sink = <<>>
    /\ pc = "idle"
    /\ index = 0
    /\ retry_count = 0
    /\ success = FALSE
    /\ had_error = FALSE
    /\ yang_result = NoResult
    /\ validation_result = FALSE
    /\ validation_message = Message("none", <<>>)
    /\ progress = <<>>
    /\ trace = <<>>
    /\ h = NewHistory
    /\ ended = <<>>
    /\ produced = <<>>
    /\ json_str = <<>>
    /\ parse_pc = "idle"
    /\ parsed = NotReturned

ConversationInit ==
    /\ OrchestratorIdle
    /\ max_iterations \in 0..MaxIterations
    /\ data = InputData
    /\ conversation_history \in {<<>>, EarlierHistory}
    /\ current_data = NotReturned
    /\ final_result = NotReturned
    /\ yang_output = NotReturned
    /\ iteration = 0
    /\ conv_pc = "call"
    /\ process_returned = NotReturned
    /\ rounds = <<>>

\* process up to the loop: preview, history reset, the user's entry, locals
Call ==
    /\ conv_pc = "call"
    /\ conversation_history' =
          Append(ResetHistory(conversation_history),
                 Entry("user", "command and preview"))
    /\ current_data' = data
    /\ final_result' = NoneValue
    /\ conv_pc' = ForLoop(0, max_iterations)
    /\ UNCHANGED <<orchestrator, parser, max_iterations, data, yang_output, iteration,
                   process_returned, rounds>>

\* Yin's turn: generate_instruction, then the 'yin' entry
GenerateInstruction ==
    /\ conv_pc = "instruct"
    /\ iteration' = iteration + 1
    /\ \E o \in InstructionOutcomes :
         IF o.raises
         THEN conv_pc' = "raised" /\ UNCHANGED conversation_history
         ELSE /\ conversation_history' =
                   Append(conversation_history, Entry("yin", o.text))
              /\ conv_pc' = "execute"
    /\ UNCHANGED <<orchestrator, parser, max_iterations, data, current_data,
                   final_result, yang_output, process_returned, rounds>>

\* Yang's turn: execute_task, the 'yang' entry, current_data
ExecuteTask ==
    /\ conv_pc = "execute"
    /\ \E o \in YangOutcomes(current_data) :
         IF o.raises
         THEN /\ conv_pc' = "raised"
              /\ UNCHANGED <<conversation_history, yang_output, current_data, rounds>>
         ELSE /\ yang_output' = o.result
              /\ conversation_history' =
                   Append(conversation_history, Entry("yang", o.explanation))
              /\ current_data' = UpdateCurrent(current_data, o.result)
              /\ rounds' = Append(rounds, [result |-> o.result, verdict |-> "pending"])
              /\ conv_pc' = "validate"
    /\ UNCHANGED <<orchestrator, parser, max_iterations, data, final_result, iteration,
                   process_returned>>

\* Yin's validation: validate_result, the 'yin_validation' entry, the break
ValidateResult ==
    /\ conv_pc = "validate"
    /\ \E o \in ValidationOutcomes :
         IF o.raises
         THEN /\ conv_pc' = "raised"
              /\ UNCHANGED <<conversation_history, final_result, rounds>>
         ELSE LET next == OnValidation(o.is_complete, final_result, yang_output,
                                       iteration, max_iterations)
              IN  /\ conversation_history' =
                        Append(conversation_history, Entry("yin_validation", o.feedback))
                  /\ final_result' = next.final_result
                  /\ conv_pc' = next.conv_pc
                  /\ rounds' = [rounds EXCEPT ![Len(rounds)].verdict =
                                    IF o.is_complete THEN "complete" ELSE "go on"]
    /\ UNCHANGED <<orchestrator, parser, max_iterations, data, current_data,
                   yang_output, iteration, process_returned>>

\* After the loop: the fallback, the formatting, the return
Finish ==
    /\ conv_pc = "finish"
    /\ final_result' = FinalResult(final_result, current_data)
    /\ process_returned' = FormatOutput(final_result')
    /\ conv_pc' = "returned"
    /\ UNCHANGED <<orchestrator, parser, max_iterations, data, conversation_history,
                   current_data, yang_output, iteration, rounds>>

ConversationNext ==
    Call \/ GenerateInstruction \/ ExecuteTask \/ ValidateResult \/ Finish

ConversationSpec == ConversationInit /\ [][ConversationNext]_vars

-----------------------------------------------------------------------------
(* Vocabulary of the properties *)

Outcomes == {"valid", "invalid", "error"}

\* The ai_decision cell of the row at position r (1-based).
Decision(r) == result_df.rows[r][AiDecision]

\* The loop over a row has ended and its final status is written; h still
\* holds that row's history.
RowEnded == pc \in {"loop", "done"} /\ index > 0

\* Positions from which the Executor or the Planner's validate is called.
InAttempt == pc \in {"attempt", "validate", "merge"}

\* The row (1-based) the history h belongs to, once a row has begun.
HRow == IF pc \in {"attempt", "validate", "merge", "rowend"} THEN index + 1 ELSE index

Returned == pc = "done"

-----------------------------------------------------------------------------
(* C1: after process_data returns, the output table has as many rows as the  *)
(* input and every row's ai_decision is exactly one of valid, invalid, error *)
(* (never the initial empty string).                                         *)
C1_OneOutcomePerRow ==
    Returned =>
        /\ Len(result_df.rows) = Len(df)
        /\ \A r \in 1..Len(df) : Decision(r) \in Outcomes

C1_Witness ==
    /\ Returned
    /\ Len(df) = 2
    /\ Decision(1) = "error"
    /\ Decision(2) = "valid"

(* C2: a row's final ai_decision is valid iff the loop ended with an attempt *)
(* the Planner accepted; otherwise error if had_error was set by an attempt  *)
(* that raised; otherwise invalid, and then every attempt was rejected and   *)
(* none raised.                                                              *)
C2_Classification ==
    /\ RowEnded =>
          /\ had_error = (h.raises > 0)
          /\ (Decision(index) = "valid") = (h.accepts = 1 /\ h.last = "accept")
          /\ (h.accepts = 0 /\ h.raises > 0) => Decision(index) = "error"
          /\ (h.accepts = 0 /\ h.raises = 0) =>
                /\ Decision(index) = "invalid"
                /\ h.rejects = h.attempts
                /\ h.attempts = max_retries
    /\ Returned =>
          \A r \in 1..Len(ended) :
              Decision(r) = IF ended[r].accepted THEN "valid"
                            ELSE IF ended[r].raised THEN "error" ELSE "invalid"

C2_Witness ==
    /\ RowEnded
    /\ h.raises > 0
    /\ h.rejects > 0
    /\ Decision(index) = "error"

(* C3 as stated: if any attempt of a row raises a transport exception, the   *)
(* row's final outcome is error, whatever the remaining attempts do.         *)
C3_ErrorWheneverRaised ==
    \A r \in 1..Len(ended) : ended[r].transport => Decision(r) = "error"

(* C3, amended: if any attempt of a row raises and no attempt of that row is *)
(* accepted, the final outcome is error, also when a later attempt is        *)
(* cleanly rejected; a row whose later attempt is accepted ends valid.       *)
C3_ErrorDominance ==
    /\ \A r \in 1..Len(ended) :
          /\ (ended[r].raised /\ ~ended[r].accepted) => Decision(r) = "error"
          /\ ended[r].accepted => Decision(r) = "valid"
    /\ (RowEnded /\ h.transport /\ h.last = "reject") => Decision(index) = "error"

C3_Witness ==
    /\ RowEnded
    /\ h.transport
    /\ h.last = "reject"
    /\ Decision(index) = "error"

(* C4: if the Executor returns an empty mapping on every attempt of a row    *)
(* and nothing raises, the row ends invalid (not valid, not error) and the   *)
(* Planner issues no completion request for that row.                        *)
C4_EmptyMappingInvalid ==
    /\ (~h.nonEmpty /\ h.raises = 0) => (h.requests = 0 /\ h.accepts = 0)
    /\ (RowEnded /\ ~h.nonEmpty /\ h.raises = 0) =>
          /\ Decision(index) = "invalid"
          /\ h.exec = max_retries

C4_Witness ==
    /\ RowEnded
    /\ ~h.nonEmpty
    /\ h.raises = 0
    /\ h.exec = 2
    /\ h.validate = 2

(* C5: once the Planner accepts an attempt the row is marked valid and no    *)
(* further Executor or validate call is made for it, budget left or not; an  *)
(* accepted first attempt means exactly one Executor and one validate call.  *)
C5_AcceptStops ==
    h.accepts >= 1 =>
        /\ h.accepts = 1
        /\ ~InAttempt
        /\ success
        /\ Decision(HRow) = "valid"
        /\ h.last = "accept"
        /\ h.attempts = 1 => (h.exec = 1 /\ h.validate = 1)

C5_Witness ==
    /\ RowEnded
    /\ h.accepts = 1
    /\ h.attempts = 1
    /\ max_retries = 2

(* C6: the attempts (Executor invocations) of a row never exceed             *)
(* max_retries; with max_retries = 1 there is at most one attempt and a      *)
(* rejection or exception ends the row at once, classified non-valid.        *)
C6_AttemptsBounded ==
    /\ h.exec <= max_retries
    /\ h.attempts <= max_retries
    /\ (max_retries = 1 /\ h.last \in {"reject", "raise"}) =>
          /\ ~InAttempt
          /\ h.attempts = 1
          /\ RowEnded => Decision(index) \in {"invalid", "error"}

C6_Witness ==
    /\ RowEnded
    /\ max_retries = 1
    /\ h.exec = 1
    /\ h.last = "reject"
    /\ Decision(index) = "invalid"

(* C7: the progress observer is called exactly once per row, before any     *)
(* Executor or Planner call and before any log event of that row, and it     *)
(* receives 1, 2, ..., N: the 1-based positions of the rows in their order.  *)
C7_ProgressPerRow ==
    /\ progress = [i \in 1..Len(progress) |-> i]
    /\ Len(progress) = HRow
    /\ Returned => Len(progress) = Len(df)
    /\ (h.exec > 0 \/ h.validate > 0 \/ InAttempt) => progress[Len(progress)] = HRow
    /\ \A i \in 1..Len(trace) :
          trace[i] = Ev("system", "Processing row") =>
              (i = 2 /\ trace[1] = Ev("progress", "on_progress") /\ h = NewHistory)
    /\ \A i \in 1..Len(trace) :
          trace[i] = Ev("progress", "on_progress") => i = 1

C7_Witness ==
    /\ Returned
    /\ progress = <<1, 2>>
    /\ h.exec > 0

(* C8: every row is processed, in the original order, whatever happened to   *)
(* earlier rows: no failure of an attempt (Executor exception, rejection,    *)
(* validation exception, merge failure) leaves process_data as an exception, *)
(* and processing never stops short of the last row.                         *)
C8_NoFailureEscapes ==
    /\ pc # "raised"
    /\ Len(ended) = index
    /\ Len(produced) = HRow
    /\ Returned => (index = Len(df) /\ Len(ended) = Len(df))
    /\ ~Returned => ENABLED Next

C8_Witness ==
    /\ Returned
    /\ Len(ended) = 2
    /\ ended[1].raised
    /\ ~ended[1].accepted
    /\ ended[2].accepted

(* C9 as stated: the enrichment columns are the union of the attribute names *)
(* of all merged results, and a row whose results never contained an         *)
(* attribute has an empty cell in that attribute's column.                   *)
C9_UnionOfAllAttributes ==
    Returned =>
        LET attrs == UNION {DOMAIN produced[r] : r \in 1..Len(produced)}
        IN  /\ Columns(result_df) = Columns(Copy(df)) \cup {AiDecision} \cup attrs
            /\ \A r \in 1..Len(produced) : \A a \in attrs :
                  a \notin DOMAIN produced[r] => result_df.rows[r][a] = NaN

(* C9, amended: the table's columns are the original columns, ai_decision    *)
(* and the union of the attribute names of all merged results; for an        *)
(* attribute that is not already a column of the table (an original column   *)
(* or ai_decision), a row whose results never contained it has an empty cell *)
(* in its column and a row whose results contained it has a value there.     *)
C9_UnionOfNewAttributes ==
    pc # "start" =>
        LET attrs == UNION {DOMAIN produced[r] : r \in 1..Len(produced)}
            old == Columns(Copy(df)) \cup {AiDecision}
            done == IF pc \in {"validate", "merge"} THEN Len(produced) - 1
                    ELSE Len(produced)
        IN  /\ Columns(result_df) \subseteq old \cup attrs
            /\ ~(pc \in {"validate", "merge"}) => Columns(result_df) = old \cup attrs
            /\ \A r \in 1..Len(result_df.rows) : \A a \in Columns(result_df) \ old :
                  (r > Len(produced) \/ (r <= done /\ a \notin DOMAIN produced[r]))
                      => result_df.rows[r][a] = NaN
            /\ \A r \in 1..done : \A a \in DOMAIN produced[r] \ old :
                  result_df.rows[r][a] # NaN

C9_Witness ==
    /\ Returned
    /\ Len(produced) = 2
    /\ DOMAIN produced[1] = {"x", "y"}
    /\ DOMAIN produced[2] = {"y", "z"}
    /\ result_df.columns = <<"name", AiDecision, "x", "y", "z">>
    /\ result_df.rows[1]["z"] = NaN
    /\ result_df.rows[2]["x"] = NaN

(* C10 as stated: the keys of every mapping the Executor returns are written *)
(* (stringified) into the row's cells, accepted or rejected, and for every   *)
(* attribute the final cell holds the value of the latest attempt that       *)
(* produced it.                                                              *)
C10_LatestValueEveryAttribute ==
    RowEnded =>
        \A r \in 1..Len(produced) : \A a \in DOMAIN produced[r] :
            result_df.rows[r][a] = produced[r][a]

(* C10, amended: as stated for every attribute other than ai_decision; the   *)
(* ai_decision cell is overwritten by the orchestrator's outcome after the   *)
(* merge and ends as valid, invalid or error.                                *)
C10_LatestValueWins ==
    ~(pc \in {"validate", "merge"}) =>
        \A r \in 1..Len(produced) :
            /\ \A a \in DOMAIN produced[r] \ {AiDecision} :
                  result_df.rows[r][a] = produced[r][a]
            /\ (AiDecision \in DOMAIN produced[r]) => Decision(r) \in Outcomes

C10_Witness ==
    /\ RowEnded
    /\ h.rejects = 2
    /\ produced[index] = [a \in {"x", "y", "z"} |->
                             IF a = "x" THEN "1" ELSE IF a = "y" THEN "2" ELSE "4"]
    /\ result_df.rows[index]["y"] = "2"
    /\ result_df.rows[index]["z"] = "4"

(* C11 as stated: when the Executor returns the error marker, the Planner's *)
(* structural check rejects it without a completion request, the attempt is  *)
(* a normal rejected retry, and the row is never classified valid on the     *)
(* basis of an error-marker result nor error on account of it.               *)
C11_ErrorMarkerRejected ==
    /\ (pc = "merge" /\ yang_result = ErrorMarker) =>
          (h.asked = 0 /\ ~validation_result)
    /\ ~(h.last = "accept" /\ yang_result = ErrorMarker)
    /\ (RowEnded /\ h.raises = 0) => Decision(index) # "error"

(* C12: Planner validation returns a rejection without issuing a completion  *)
(* request whenever the Executor result is not a mapping or is an empty      *)
(* mapping; a completion request is issued only for a non-empty mapping.     *)
C12_StructuralCheckFirst ==
    pc # "validate" =>
        /\ ~IsDict(yang_result) => h.asked = 0
        /\ yang_result = EmptyMapping => h.asked = 0
        /\ (pc = "merge" /\ ~IsDict(yang_result)) =>
              (~validation_result /\ validation_message.src = "not_an_object")
        /\ (pc = "merge" /\ yang_result = EmptyMapping) =>
              (~validation_result /\ validation_message.src = "empty")
        /\ h.asked > 0 =>
              (h.asked = 1 /\ IsDict(yang_result) /\ yang_result.items # <<>>)

C12_Witness ==
    /\ pc = "merge"
    /\ yang_result = NotAMapping
    /\ h.validate = 2
    /\ h.requests = 1
    /\ h.asked = 0

\* The accept token at position i of a text, each letter in either case.
AcceptTokenAt(text, i) ==
    /\ i + 5 <= Len(text)
    /\ text[i] \in {"W", "w"}
    /\ text[i + 1] \in {"O", "o"}
    /\ text[i + 2] \in {"O", "o"}
    /\ text[i + 3] \in {"H", "h"}
    /\ text[i + 4] \in {"O", "o"}
    /\ text[i + 5] \in {"O", "o"}

(* C13: for a non-empty mapping, Planner validation accepts iff the model's  *)
(* response contains WOOHOO as a substring in any letter case anywhere; a    *)
(* response that starts with NAYNAY and mentions the accept token later is   *)
(* accepted; the returned rationale is the full response text.               *)
C13_AcceptTokenAnywhere ==
    (pc = "merge" /\ h.asked = 1 /\ ~h.reply.raises /\ ~h.reply.none) =>
        /\ validation_result = (\E i \in 1..Len(h.reply.text) :
                                    AcceptTokenAt(h.reply.text, i))
        /\ validation_message = Message("response", h.reply.text)
        /\ (SubSeq(h.reply.text, 1, 6) = TextNaynay /\ AcceptTokenAt(h.reply.text, 8))
              => validation_result
        /\ h.reply.text = TextNaynay => ~validation_result

C13_Witness ==
    /\ pc = "merge"
    /\ h.asked = 1
    /\ h.reply.text = TextMixed
    /\ yang_result = ResultXY
    /\ validation_result
    /\ validation_message.text = TextMixed

(* C14: Planner validation never propagates an exception: an exception while *)
(* building the prompt, calling the completion capability or reading its     *)
(* response yields (rejected, rationale containing the exception text), so a *)
(* validation failure alone never sets had_error.                            *)
C14_ValidationNeverRaises ==
    /\ (pc = "merge" /\ h.asked = 1 /\ h.reply.raises) =>
          /\ ~validation_result
          /\ validation_message.src = "validation_error"
          /\ Contains(validation_message.text, h.reply.text)
    /\ (pc = "merge" /\ h.asked = 1 /\ h.reply.none) =>
          /\ ~validation_result
          /\ validation_message.src = "validation_error"
          /\ Contains(validation_message.text, TextNoUpper)
    /\ pc = "merge" => h.last = "pending"
    /\ (/\ h.validate = h.attempts
        /\ ~h.transport
        /\ pc \notin {"validate", "merge"}
        /\ \A a \in answers : IsDict(a)) =>
          (~had_error /\ h.raises = 0 /\ h.rejects + h.accepts = h.validate)
    /\ (RowEnded /\ h.raises = 0 /\ h.accepts = 0) => Decision(index) = "invalid"

C14_Witness ==
    /\ RowEnded
    /\ h.validate = 2
    /\ h.rejects = 2
    /\ h.reply.raises
    /\ validation_message.src = "validation_error"
    /\ ~had_error
    /\ Decision(index) = "invalid"

-----------------------------------------------------------------------------
(* Vocabulary of the properties of parse_json_safely *)

ParseReturned == parse_pc = "returned"

HasChar(s, c) == \E i \in 1..Len(s) : s[i] = c

\* Some "}" of the text comes after its first "{".
BracesInOrder(s) ==
    \E i, j \in 1..Len(s) : i < j /\ s[i] = "{" /\ s[j] = "}"

(* C15 as stated: parse_json_safely first parses the whole text; only if     *)
(* that fails it parses the text from the first "{" to the last "}"; a valid *)
(* JSON object wrapped in prose yields that object; a text with no braces,   *)
(* or whose last "}" does not come after its first "{", yields None.         *)
C15_DirectThenBraces ==
    ParseReturned =>
        /\ parsed = ParseJsonSafely(json_str)
        /\ ~JsonLoads(json_str).raises => parsed = JsonLoads(json_str).value
        /\ json_str = PieceProse \o PieceObject \o PieceProse =>
              parsed = Value("dict", PieceObject)
        /\ ~BracesInOrder(json_str) => parsed = NoneValue

(* C16 as stated: for every input text parse_json_safely does not raise and  *)
(* returns a parsed mapping or None, never a list, number, string or         *)
(* boolean.                                                                  *)
C16_MappingOrNone ==
    /\ parse_pc \in {"call", "except", "returned"}
    /\ ParseReturned => parsed.kind \in {"dict", "None"}

-----------------------------------------------------------------------------
\* The lines of the output file are now those of `lines` followed by at most
\* one more line.
Appended(lines, now) ==
    /\ Len(now) \in {Len(lines), Len(lines) + 1}
    /\ SubSeq(now, 1, Len(lines)) = lines

\* What the output file holds while row `index` (0-based) is the next to end.
SinkHoldsEndedRows ==
    IF ~output_file \/ pc \in {"start", "idle"} THEN sink = <<>>
    ELSE /\ Len(sink) = 1 + index
         /\ sink[1] = <<"name", AiDecision>>
         /\ \A k \in 1..index :
               /\ Len(sink[k + 1]) >= 2
               /\ \A j \in 1..Len(sink[k + 1]) :
                     sink[k + 1][j] = result_df.rows[k][result_df.columns[j]]
               /\ sink[k + 1][2] = Decision(k)
               /\ Decision(k) \in Outcomes

(* C17: with an output file configured the header is written exactly once,   *)
(* before any row is processed; then exactly one line is appended per        *)
(* processed row, in processing order, after that row's ai_decision is       *)
(* terminal; written lines are never rewritten, so the k-th data line is the *)
(* k-th row with its final outcome.                                          *)
C17_StreamedInOrder ==
    /\ [](SinkHoldsEndedRows /\ (progress # <<>> /\ output_file => Len(sink) >= 1))
    /\ [][/\ Appended(sink, sink')
          /\ sink' # sink => (pc = "start" \/ (pc = "rowend" /\ pc' = "loop"))]_vars

C17_Witness ==
    /\ Returned
    /\ output_file
    /\ Len(sink) = 3
    /\ sink[2] = <<"Ada", "error">>
    /\ sink[3] = <<"Ada", "valid", "1", "2">>

-----------------------------------------------------------------------------
\* The caller's table has the columns and cells it was given.
CallerTableAsGiven ==
    \A r \in 1..Len(df) : DOMAIN df[r] = {"name"} /\ df[r]["name"] \in InputValues

\* Rows whose processing has not written a status yet have ai_decision = "".
UnwrittenRowsEmpty ==
    pc \notin {"start", "idle"} =>
        /\ Len(result_df.rows) = Len(df)
        /\ \A r \in 1..Len(df) : r > Len(progress) => Decision(r) = ""
        /\ (InAttempt /\ h.rejects = 0) => Decision(index + 1) = ""
        /\ \A r \in 1..Len(df) : Decision(r) \in Outcomes \cup {""}

(* C18: process_data works on a copy: the caller's table is unchanged by the *)
(* call (same columns, same cells, no ai_decision column), and in the        *)
(* working copy every row's ai_decision is the empty string until that row's *)
(* own processing writes it.                                                 *)
C18_WorksOnCopy ==
    /\ [](CallerTableAsGiven /\ UnwrittenRowsEmpty)
    /\ [][df' = df]_vars

C18_Witness ==
    /\ pc = "merge"
    /\ index = 1
    /\ h.raises = 1
    /\ df[1]["name"] = "Ada"
    /\ result_df.rows[1]["name"] = "Zed"
    /\ Decision(1) = "valid"
    /\ Decision(2) = ""

-----------------------------------------------------------------------------
\* The events of the trace that went to the log observer (the others mark
\* calls of the progress observer, the Executor, the Planner and the merge).
IsLogEvent(e) == e[1] \notin {"progress", "call"}
Log == SelectSeq(trace, IsLogEvent)

\* The place of an attempt's events in the order of its operations.
Rank(e) ==
    CASE e = Ev("yin", "Analyzing row") -> 1
      [] e = Ev("yin", "Formulating task") -> 2
      [] e = Ev("yang", "Processing task") -> 3
      [] e = Ev("yang", "Generated enrichment data") -> 4
      [] e = Ev("yin", "Validating Yang's response") -> 5
      [] e \in {Ev("yin", "Validation successful"), Ev("yin", "Validation failed")} -> 6
      [] OTHER -> 0

IsPositive(k) == k > 0

(* C19: every event given to the log observer has a kind in system, yin,     *)
(* yang, error; within an attempt the events come in the order of the        *)
(* operations: building context, formulating task, processing task,          *)
(* generated data, validating, verdict; and an error event is emitted        *)
(* exactly when an attempt raised.                                           *)
C19_LogInCausalOrder ==
    LET log == Log
        n == Len(log)
        rank == [i \in 1..n |-> Rank(log[i])]
        ranked == SelectSeq(rank, IsPositive)
        errors == {i \in 1..n : log[i][1] = "error"}
    IN  /\ \A i \in 1..n : log[i][1] \in {"system", "yin", "yang", "error"}
        /\ ranked = [i \in 1..Len(ranked) |-> i]
        /\ \A i \in errors : \A j \in (i + 1)..n : j \in errors
        /\ IF pc \in {"attempt", "rowend"} /\ h.last = "raise"
           THEN /\ errors # {}
                /\ Cardinality({i \in errors :
                                   log[i] = Ev("error", "Error processing row")}) = 1
           ELSE errors = {}
        /\ (pc \in {"attempt", "rowend"} /\ h.last \in {"accept", "reject"}) =>
              \E i \in 1..n : rank[i] = 6
        /\ pc = "merge" => rank[n] = 5
        /\ pc = "validate" => rank[n] = 4

C19_Witness ==
    /\ pc = "rowend"
    /\ h.raises = 1
    /\ h.accepts = 1
    /\ Log = <<Ev("system", "Retry"), Ev("yin", "Analyzing row"),
               Ev("yin", "Formulating task"), Ev("yang", "Processing task"),
               Ev("yang", "Generated enrichment data"),
               Ev("yin", "Validating Yang's response"),
               Ev("yin", "Validation successful")>>

-----------------------------------------------------------------------------
\* In every row the Executor's first result was accepted, and it was the same
\* non-empty mapping in all of them.
SameResultAcceptedAtOnce ==
    /\ Returned
    /\ Len(df) >= 1
    /\ \A r \in 1..Len(df) : ended[r].first /\ produced[r] = produced[1]
    /\ DOMAIN produced[1] # {}

(* C20 as stated: if for every row the Executor's first result is the same   *)
(* non-empty mapping and the Planner accepts it, the output is the input     *)
(* table with each of the mapping's attributes added as a column holding the *)
(* stringified value in every row, and ai_decision = valid in every row.     *)
C20_SameResultEveryRow ==
    SameResultAcceptedAtOnce =>
        /\ Columns(result_df) = Columns(Copy(df)) \cup {AiDecision} \cup DOMAIN produced[1]
        /\ \A r \in 1..Len(df) :
              /\ \A c \in Columns(Copy(df)) : result_df.rows[r][c] = df[r][c]
              /\ \A a \in DOMAIN produced[1] : result_df.rows[r][a] = produced[1][a]
              /\ Decision(r) = "valid"

(* C20, amended: under the same condition ai_decision = valid in every row,  *)
(* and every attribute of the mapping that is not named like a column the    *)
(* table already has (an input column or ai_decision) is added as a column   *)
(* holding the stringified value in every row; when no attribute is named    *)
(* like a column of the table, the output is the input table with exactly    *)
(* these columns added.                                                      *)
C20_SameNewAttributesEveryRow ==
    SameResultAcceptedAtOnce =>
        LET old == Columns(Copy(df)) \cup {AiDecision}
            attrs == DOMAIN produced[1]
        IN  /\ Columns(result_df) = old \cup attrs
            /\ \A r \in 1..Len(df) :
                  /\ Decision(r) = "valid"
                  /\ \A a \in attrs \ old : result_df.rows[r][a] = produced[1][a]
                  /\ \A c \in Columns(Copy(df)) \ attrs : result_df.rows[r][c] = df[r][c]
            /\ (answers = {ResultXY, ResultYZ} /\ attrs = {"x", "y"}) =>
                  /\ result_df.columns = <<"name", AiDecision, "x", "y">>
                  /\ \A r \in 1..Len(df) :
                        result_df.rows[r] =
                            [c \in {"name", AiDecision, "x", "y"} |->
                                CASE c = "name" -> df[r]["name"]
                                  [] c = AiDecision -> "valid"
                                  [] c = "x" -> "1"
                                  [] c = "y" -> "2"]

C20_Witness ==
    /\ SameResultAcceptedAtOnce
    /\ Len(df) = 2
    /\ DOMAIN produced[1] = {"x", "y"}
    /\ result_df.rows[1]["x"] = "1"
    /\ result_df.rows[2]["y"] = "2"
    /\ Decision(1) = "valid"
    /\ Decision(2) = "valid"

-----------------------------------------------------------------------------
(* C21 as stated: for every row and every original column the output cell    *)
(* equals the input cell: an Executor result creates or fills enrichment     *)
(* columns and never changes a value of an original column.                  *)
C21_OriginalColumnsKept ==
    pc \notin {"start", "idle"} =>
        /\ Len(result_df.rows) = Len(df)
        /\ \A r \in 1..Len(df) : \A c \in Columns(Copy(df)) :
              result_df.rows[r][c] = df[r][c]

-----------------------------------------------------------------------------
CallValidate == Ev("call", "validate_yang_response")
CallMerge == Ev("call", "merge")
CallExecutor == Ev("call", "process_task")

\* The positions of an event in the trace.
Positions(e) == {i \in 1..Len(trace) : trace[i] = e}

\* The cells of the history's row hold the items of yang_result, stringified
\* (the ai_decision cell excepted, which holds the status).
ResultInCells ==
    \A i \in 1..Len(yang_result.items) :
        LET key == yang_result.items[i][1]
        IN  key # AiDecision =>
                /\ key \in Columns(result_df)
                /\ result_df.rows[HRow][key] = Str(yang_result.items[i][2])

-----------------------------------------------------------------------------
\* This step is an attempt whose Executor call raised.
ExecutorRaisedStep ==
    /\ pc = "attempt"
    /\ h'.exec = h.exec + 1
    /\ h'.last = "raise"

(* C23: when the Executor call of an attempt raises, the orchestrator sets   *)
(* had_error, increments retry_count by exactly one, emits an error log      *)
(* event and continues the loop; no cell of the table is changed by that     *)
(* attempt and the Planner's validate is not called for it.                  *)
C23_ExecutorRaiseChangesNoCell ==
    [][ExecutorRaisedStep =>
          /\ had_error'
          /\ retry_count' = retry_count + 1
          /\ \E i \in 1..Len(trace') : trace'[i] = Ev("error", "Error processing row")
          /\ Ev("call", "validate_yang_response") \notin
                 {trace'[i] : i \in 1..Len(trace')}
          /\ Ev("call", "merge") \notin {trace'[i] : i \in 1..Len(trace')}
          /\ pc' = IF retry_count' < max_retries THEN "attempt" ELSE "rowend"
          /\ result_df' = result_df
          /\ h'.validate = h.validate
          /\ h'.requests = h.requests
          /\ UNCHANGED <<success, index, sink, yang_result, validation_result>>]_vars

C23_Witness ==
    /\ pc = "rowend"
    /\ h.last = "raise"
    /\ h.transport
    /\ h.exec = 2
    /\ h.validate = 1
    /\ h.rejects = 1
    /\ retry_count = 2
    /\ had_error
    /\ Decision(HRow) = "invalid"
    /\ "x" \in Columns(result_df)
    /\ result_df.rows[HRow]["x"] = "1"

-----------------------------------------------------------------------------
\* The columns the table has before any result is merged.
OldColumns == Columns(Copy(df)) \cup {AiDecision}

\* The value of attribute a in a returned mapping, NaN when it has none.
RECURSIVE ValueIn(_, _)
ValueIn(items, a) ==
    IF items = <<>> THEN NaN
    ELSE LET rest == ValueIn(Tail(items), a)
         IN  IF rest # NaN THEN rest
             ELSE IF items[1][1] = a THEN Str(items[1][2]) ELSE NaN

\* The row has ended without an accepted attempt.
ExhaustedRow == RowEnded /\ h.accepts = 0

(* C24 as stated: a row that exhausts its retry budget without acceptance    *)
(* ends with its enrichment cells holding exactly the attributes and values  *)
(* produced by its last attempt, while being marked invalid or error.        *)
C24_ExactlyLastAttempt ==
    (ExhaustedRow /\ h.last = "reject") =>
        /\ Decision(index) \in {"invalid", "error"}
        /\ \A a \in Columns(result_df) \ OldColumns :
              result_df.rows[index][a] = ValueIn(yang_result.items, a)

(* C24, amended: such a row ends marked invalid or error with, for every     *)
(* attribute produced by any of its attempts, the value of the latest        *)
(* attempt that produced it: all attributes and values of its last returned  *)
(* mapping, and the attributes only earlier attempts produced as well.       *)
C24_LatestPerAttribute ==
    ExhaustedRow =>
        /\ Decision(index) \in {"invalid", "error"}
        /\ h.last = "reject" => ResultInCells
        /\ \A a \in DOMAIN produced[index] \ {AiDecision} :
              result_df.rows[index][a] = produced[index][a]
        /\ \A a \in Columns(result_df) \ (OldColumns \cup DOMAIN produced[index]) :
              result_df.rows[index][a] = NaN

C24_Witness ==
    /\ ExhaustedRow
    /\ h.rejects = 2
    /\ yang_result = ResultYZ
    /\ "x" \in Columns(result_df)
    /\ result_df.rows[index]["x"] = "1"
    /\ result_df.rows[index]["y"] = "3"
    /\ result_df.rows[index]["z"] = "4"
    /\ Decision(index) = "invalid"

-----------------------------------------------------------------------------
\* Every attempt of the ended row got a value from the Executor and a
\* rejection from the Planner.
EveryAttemptRejected ==
    /\ RowEnded
    /\ h.attempts > 0
    /\ h.exec = h.attempts
    /\ h.validate = h.attempts
    /\ ~h.transport
    /\ h.accepts = 0

(* C25: a Planner rejection is non-exceptional. If on every attempt of a row *)
(* the Executor returns a value without raising and the Planner returns a    *)
(* rejection, whatever the shape of the result (a result that is not a       *)
(* mapping included), had_error stays false and the row ends 'invalid'.      *)
C25_RejectionIsNotAnError ==
    EveryAttemptRejected => (~had_error /\ Decision(index) = "invalid")

-----------------------------------------------------------------------------
ExecutorReturned == Ev("yang", "Generated enrichment data")

\* The trace of the current attempt holds at most one Executor call and at
\* most one validate call, the validate call after the Executor's return.
OneCallEachInOrder ==
    LET executor == Positions(CallExecutor)
        returned == Positions(ExecutorReturned)
        validate == Positions(CallValidate)
    IN  /\ Cardinality(executor) <= 1
        /\ Cardinality(validate) <= 1
        /\ \A r \in returned : \E e \in executor : e < r
        /\ \A v \in validate : \E r \in returned : r < v

(* C26: within a row, Executor and Planner-validate calls alternate and      *)
(* never overlap: every validate call follows the return of the Executor     *)
(* call of the same attempt, validate is called at most once per attempt,    *)
(* and the number of validate calls of a row never exceeds the number of     *)
(* its Executor calls.                                                       *)
C26_ExecutorThenValidate ==
    /\ [](/\ h.validate <= h.exec
          /\ h.exec <= h.attempts
          /\ OneCallEachInOrder
          /\ pc = "validate" =>
                /\ h.exec = h.attempts
                /\ h.last = "pending"
                /\ yang_result # NoResult
                /\ Positions(ExecutorReturned) # {}
                /\ Positions(CallValidate) = {}
          /\ pc = "merge" => (h.last = "pending" /\ Positions(CallValidate) # {}))
    /\ [][/\ h'.validate # h.validate =>
                \/ pc = "loop" /\ h' = NewHistory
                \/ /\ pc = "validate"
                   /\ h'.validate = h.validate + 1
                   /\ h'.exec = h.exec
                   /\ pc' # "validate"
          /\ h'.exec # h.exec =>
                \/ pc = "loop" /\ h' = NewHistory
                \/ /\ pc = "attempt"
                   /\ h'.exec = h.exec + 1
                   /\ h'.validate = h.validate
                   /\ h'.attempts = h.attempts + 1
                   /\ pc' = "validate" <=> h'.last = "pending"]_vars

C26_Witness ==
    /\ pc = "merge"
    /\ h.exec = 2
    /\ h.validate = 2
    /\ h.transport = FALSE
    /\ h.rejects = 1
    /\ Cardinality(Positions(CallValidate)) = 1
    /\ Cardinality(Positions(CallExecutor)) = 1

-----------------------------------------------------------------------------
\* The outcome a row's own attempts call for.
OwnOutcome(e) ==
    IF e.accepted THEN "valid" ELSE IF e.raised THEN "error" ELSE "invalid"

\* The cells of every row but the one being processed are left as they are.
OtherRowsUntouched ==
    \A q \in 1..Len(result_df.rows) :
        q # index + 1 =>
            \A c \in Columns(result_df) :
                result_df'.rows[q][c] = result_df.rows[q][c]

(* C27: rows are independent. retry_count, success and had_error are         *)
(* re-initialised when a row begins, so a row's final outcome depends only   *)
(* on that row's own attempts (an exception in an earlier row never makes a  *)
(* later row error and never consumes its retry budget), and processing a    *)
(* row never changes ai_decision or any other cell of a different row.       *)
C27_RowsIndependent ==
    /\ [](/\ \A r \in 1..Len(ended) : Decision(r) = OwnOutcome(ended[r])
          /\ pc \in {"attempt", "validate", "merge", "rowend"} =>
                /\ retry_count = h.rejects + h.raises
                /\ had_error = (h.raises > 0)
                /\ success = (h.accepts > 0))
    /\ [][/\ progress' # progress =>
                (retry_count' = 0 /\ ~success' /\ ~had_error' /\ h' = NewHistory)
          /\ pc \notin {"idle", "start"} => OtherRowsUntouched]_vars

C27_Witness ==
    /\ Len(ended) = 2
    /\ ended[1].raised
    /\ Decision(1) = "error"
    /\ ~ended[2].raised
    /\ h.rejects = 2
    /\ Decision(2) = "invalid"
    /\ {"x", "z"} \subseteq Columns(result_df)
    /\ result_df.rows[1]["x"] = "1"
    /\ result_df.rows[2]["z"] = "4"

-----------------------------------------------------------------------------
\* The trace holds one of the two "All ... attempts failed" events.
AllAttemptsFailedLogged ==
    \E i \in 1..Len(trace) :
        trace[i] \in {Ev("yin", "All validation attempts failed"),
                      Ev("error", "All processing attempts failed")}

\* The step ends an attempt by a rejection or an exception.
FailedAttemptStep == h' # h /\ h'.last \in {"reject", "raise"}

(* C28: a row that is never accepted makes exactly max_retries attempts.     *)
(* Each failed attempt (rejection or exception) increments retry_count by    *)
(* exactly one, the loop runs while success is false and retry_count is      *)
(* below max_retries, and the "All ... attempts failed" event is logged only *)
(* on the attempt that brings retry_count to max_retries.                    *)
C28_ExactlyMaxRetriesAttempts ==
    /\ [](/\ ((pc = "rowend" \/ RowEnded) /\ h.accepts = 0) =>
                (h.attempts = max_retries /\ retry_count = max_retries)
          /\ pc \in {"attempt", "validate", "merge"} =>
                (~success /\ retry_count < max_retries)
          /\ pc = "rowend" => (success \/ retry_count = max_retries)
          /\ pc \in {"attempt", "rowend"} => h.attempts = retry_count + h.accepts
          /\ pc \in {"validate", "merge"} => h.attempts = retry_count + 1
          /\ AllAttemptsFailedLogged =>
                (pc = "rowend" /\ ~success /\ retry_count = max_retries)
          /\ (pc = "rowend" /\ ~success) => AllAttemptsFailedLogged)
    /\ [][/\ FailedAttemptStep => retry_count' = retry_count + 1
          /\ retry_count' # retry_count =>
                \/ progress' # progress /\ retry_count' = 0
                \/ FailedAttemptStep /\ retry_count' = retry_count + 1]_vars

C28_Witness ==
    /\ pc = "rowend"
    /\ max_retries = 2
    /\ retry_count = 2
    /\ h.attempts = 2
    /\ h.rejects = 1
    /\ h.raises = 1
    /\ h.last = "reject"
    /\ AllAttemptsFailedLogged

-----------------------------------------------------------------------------
\* The steps one row can still take at most, from the position in its loop.
RowMeasure ==
    CASE pc = "attempt"  -> 3 * (max_retries - retry_count) + 1
      [] pc = "validate" -> 3 * (max_retries - retry_count)
      [] pc = "merge"    -> 3 * (max_retries - retry_count) - 1
      [] pc = "rowend"   -> 1
      [] pc = "loop"     -> 3 * max_retries + 2
      [] pc = "start"    -> 3 * max_retries + 3
      [] OTHER           -> 0

\* A bound on the steps process_data can still take: the rows not yet ended
\* times the longest run of one row, plus what is left of the current row.
Measure ==
    IF pc = "done" THEN 0
    ELSE (Len(df) - index) * (3 * max_retries + 3) + RowMeasure

(* C29: provided every Executor and Planner call returns or raises,          *)
(* process_data terminates for every finite table and every max_retries      *)
(* (every step lowers a bound on the steps that are left), and it returns    *)
(* the table only after every row has reached its terminal outcome: at the   *)
(* return no row has an intermediate or empty ai_decision.                   *)
C29_Terminates ==
    /\ <>Returned
    /\ [](Measure >= 0 /\ retry_count <= max_retries /\ index <= Len(df))
    /\ [][Measure' < Measure]_vars
    /\ [](Returned =>
            /\ index = Len(df)
            /\ Len(ended) = Len(df)
            /\ \A r \in 1..Len(df) : Decision(r) = OwnOutcome(ended[r]))
    /\ [][pc' = "done" /\ pc # "done" =>
            (pc = "loop" /\ result_df' = result_df /\ Len(ended) = Len(df))]_vars

C29_Witness ==
    /\ Returned
    /\ Len(df) = 2
    /\ max_retries = 2
    /\ ended[1].raised /\ ~ended[1].accepted
    /\ ~ended[2].raised /\ ~ended[2].accepted
    /\ Measure = 0

-----------------------------------------------------------------------------
\* The returned mapping has an attribute named ai_decision.
SuppliesDecision(result) ==
    IsDict(result) /\ \E i \in 1..Len(result.items) : result.items[i][1] = AiDecision

\* The step merges a result that has an attribute named ai_decision.
MergesSuppliedDecision ==
    pc = "merge" /\ SuppliesDecision(yang_result) /\ result_df' # result_df

(* C30: a result of the Executor with an attribute named ai_decision cannot  *)
(* corrupt the row's outcome. On every path the status the orchestrator      *)
(* writes is written after the merge of that attempt, so the ai_decision of  *)
(* a row is always the orchestrator's classification (or still unset), and   *)
(* the final one is never the value the Executor supplied.                   *)
C30_OutcomeNotSupplied ==
    /\ [](pc \notin {"start", "idle"} =>
            /\ \A r \in 1..Len(result_df.rows) : Decision(r) \in Outcomes \cup {""}
            /\ \A r \in 1..Len(ended) :
                  AiDecision \in DOMAIN produced[r] =>
                      /\ Decision(r) = OwnOutcome(ended[r])
                      /\ Decision(r) # produced[r][AiDecision])
    /\ [][MergesSuppliedDecision =>
            result_df'.rows[index + 1][AiDecision] =
                (IF validation_result THEN "valid" ELSE "invalid")]_vars

C30_Witness ==
    /\ Returned
    /\ Len(ended) = 2
    /\ AiDecision \in DOMAIN produced[1] /\ produced[1][AiDecision] = "ok"
    /\ AiDecision \in DOMAIN produced[2] /\ produced[2][AiDecision] = "ok"
    /\ Decision(1) = "valid"
    /\ Decision(2) = "invalid"
    /\ result_df.rows[2]["name"] = "Zed"

-----------------------------------------------------------------------------
(* C31: with streaming enabled, every row appended to the output file has    *)
(* the same number of fields, in the same column order, as the header        *)
(* written at the start, for every sequence of Executor results (results     *)
(* that introduce new columns after the header was written included).        *)
C31_RowsMatchHeader ==
    (output_file /\ Len(sink) >= 1) =>
        \A k \in 2..Len(sink) :
            /\ Len(sink[k]) = Len(sink[1])
            /\ \A j \in 1..Len(sink[1]) :
                  sink[k][j] = result_df.rows[k - 1][sink[1][j]]

-----------------------------------------------------------------------------
\* The last DataFrame among the results of the iterations, else the fallback.
RECURSIVE LatestFrame(_, _)
LatestFrame(rs, fallback) ==
    IF rs = <<>> THEN fallback
    ELSE LET last == rs[Len(rs)]
         IN  IF IsDataFrame(last.result) THEN last.result
             ELSE LatestFrame(SubSeq(rs, 1, Len(rs) - 1), fallback)

\* The roles of the history's entries, in order.
Roles(history) == [i \in 1..Len(history) |-> history[i].role]

\* One 'user' entry, then 'yin', 'yang', 'yin_validation' for each of n iterations.
ExpectedRoles(n) ==
    [i \in 1..(3 * n + 1) |->
        IF i = 1 THEN "user"
        ELSE CASE (i - 2) % 3 = 0 -> "yin"
               [] (i - 2) % 3 = 1 -> "yang"
               [] OTHER           -> "yin_validation"]

ProcessReturned == conv_pc = "returned"

(* C32: process runs at most max_iterations iterations of instruct, execute, *)
(* validate and stops at the first iteration whose validation reports        *)
(* completion, returning (formatted) that iteration's Yang result. If no     *)
(* iteration completes, or the completed result is None, it returns the      *)
(* latest DataFrame Yang produced, else the input data. The history is reset *)
(* per call: one 'user' entry, then 'yin', 'yang', 'yin_validation' in that  *)
(* order for each iteration performed.                                       *)
C32_ConversationLoop ==
    /\ [](/\ iteration <= max_iterations
          /\ Len(rounds) <= iteration
          /\ \A k \in 1..(Len(rounds) - 1) : rounds[k].verdict = "go on"
          /\ conv_pc \notin {"call", "idle"} =>
                LET roles == Roles(conversation_history)
                IN  /\ Len(roles) >= 1
                    /\ Len(roles) <= 3 * iteration + 1
                    /\ roles = SubSeq(ExpectedRoles(iteration), 1, Len(roles))
          /\ ProcessReturned =>
                LET n == Len(rounds)
                    latest == LatestFrame(rounds, data)
                IN  /\ iteration = n
                    /\ Roles(conversation_history) = ExpectedRoles(n)
                    /\ IF n > 0 /\ rounds[n].verdict = "complete"
                       THEN process_returned =
                                FormatOutput(IF rounds[n].result = NoneValue
                                             THEN latest ELSE rounds[n].result)
                       ELSE /\ n = max_iterations
                            /\ process_returned = FormatOutput(latest))
    /\ [][/\ iteration' # iteration =>
                (conv_pc = "instruct" /\ iteration' = iteration + 1
                   /\ iteration < max_iterations)
          /\ rounds' # rounds /\ Len(rounds') = Len(rounds) =>
                (conv_pc = "validate" /\ rounds[Len(rounds)].verdict = "pending")]_vars

C32_Witness ==
    /\ ProcessReturned
    /\ max_iterations = 3
    /\ Len(rounds) = 2
    /\ rounds[1] = [result |-> DataFrame("a"), verdict |-> "go on"]
    /\ rounds[2] = [result |-> NoneValue, verdict |-> "complete"]
    /\ process_returned = FormatOutput(DataFrame("a"))
    /\ Len(conversation_history) = 7

====
